---- MODULE Spec2Model ----
(***************************************************************************)
(* State-machine model of AItutor.py, a Streamlit script.                  *)
(*                                                                         *)
(* One Streamlit process serves several browser sessions.  Each session    *)
(* owns an st.session_state; chat_history.json, sys.stdout and the pyplot  *)
(* figure registry belong to the process and are shared by all sessions.   *)
(* A widget event makes Streamlit run the script top to bottom for the     *)
(* session that raised it; one action below is one such script run.        *)
(*                                                                         *)
(* Python strings are modelled as sequences of text pieces, so that        *)
(* prefixes, replacement and concatenation are computed, not assumed.      *)
(***************************************************************************)
EXTENDS Integers, Sequences, FiniteSets, TLC

VARIABLES
    file,          \* chat_history.json: [exists, text], text a sequence of JSON tokens
    sys_stdout,    \* sys.stdout of the process: "original" or "capture" (an io.StringIO)
    fignums,       \* number of figures open in pyplot (plt.get_fignums() is non-empty iff > 0)
    started,       \* started[s]: "chat_history" is in session s's st.session_state
    chat_history,  \* chat_history[s]: st.session_state.chat_history
    logged_in,     \* logged_in[s]: st.session_state.logged_in
    username,      \* username[s]: st.session_state.username
    role,          \* role[s]: st.session_state.role
    ev             \* what the last script run did and displayed: the session and
                   \* widget that triggered it, the component calls it made in order,
                   \* whether it called st.rerun(), whether an exception left the script,
                   \* and the texts and figure it put on the page

vars == <<file, sys_stdout, fignums, started, chat_history, logged_in, username, role, ev>>

\* ---------------------------------------------------------------- bounds
\* Longest chat history (in turns) a session may build before it has to clear.
MaxTurns == 4
\* Most figures left open in pyplot.
MaxFigs == 2

\* The browser sessions served by the process, and the name each user types.
Sessions == {1, 2}
SoloSessions == {1}
TypedName(s) == IF s = 1 THEN <<"alice">> ELSE <<"bob">>

\* ---------------------------------------------------------------- strings
StartsWith(s, p) == Len(s) >= Len(p) /\ SubSeq(s, 1, Len(p)) = p

\* str.replace('\n', '\n- ')
RECURSIVE ReplaceNewlines(_)
ReplaceNewlines(s) ==
    IF s = <<>> THEN <<>>
    ELSE (IF Head(s) = "\n" THEN <<"\n", "- ">> ELSE <<Head(s)>>) \o ReplaceNewlines(Tail(s))

\* ---------------------------------------------------------------- LLM gateway
\* The warning-sign emoji (U+26A0 U+FE0F) that opens both error strings.
WarningSign == "U+26A0 U+FE0F"

\* What model.generate_content can do: return text, return no text, or raise.
RemoteOutcomes ==
    { [kind |-> "text",  text |-> <<"Overfitting is", "\n", "memorising noise">>],
      [kind |-> "empty", text |-> <<>>],
      [kind |-> "raise", text |-> <<"429 quota exceeded">>] }

\* A gateway that lets the remote exception escape.
get_ai_response_unguarded(user_input, outcome) ==
    IF outcome.kind = "raise"
    THEN [raised |-> TRUE, value |-> <<>>]
    ELSE IF outcome.kind = "text" /\ outcome.text # <<>>
         THEN [raised |-> FALSE, value |-> <<"\n", "- ">> \o ReplaceNewlines(outcome.text)]
         ELSE [raised |-> FALSE, value |-> <<WarningSign, " ", "Error: AI could not generate a response.">>]

\* get_ai_response(user_input): [raised, value]
get_ai_response(user_input, outcome) ==
    IF outcome.kind = "raise"
    THEN [raised |-> FALSE, value |-> <<WarningSign, " ", "API Error: ">> \o outcome.text]
    ELSE IF outcome.kind = "text" /\ outcome.text # <<>>
         THEN [raised |-> FALSE, value |-> <<"\n", "- ">> \o ReplaceNewlines(outcome.text)]
         ELSE [raised |-> FALSE, value |-> <<WarningSign, " ", "Error: AI could not generate a response.">>]

\* ---------------------------------------------------------------- history store
Punct(c) == [t |-> "punct", v |-> <<c>>]
StrTok(s) == [t |-> "string", v |-> s]

Turn(u, r, m) == [username |-> u, role |-> r, message |-> m]

\* json.dump of a list of {username, role, message} objects, as a token sequence.
RECURSIVE DumpTurns(_)
DumpTurns(h) ==
    IF h = <<>> THEN <<>>
    ELSE << Punct("{"), StrTok(Head(h).username), StrTok(Head(h).role),
            StrTok(Head(h).message), Punct("}") >> \o DumpTurns(Tail(h))

json_dump(h) == <<Punct("[")>> \o DumpTurns(h) \o <<Punct("]")>>

\* json.load: [ok, value]; ok is FALSE where json.load raises JSONDecodeError.
json_load(text) ==
    LET n == Len(text)
        k == (n - 2) \div 5
        wellFormed ==
            /\ n >= 2
            /\ (n - 2) % 5 = 0
            /\ text[1] = Punct("[")
            /\ text[n] = Punct("]")
            /\ \A i \in 1..k :
                  /\ text[5 * i - 3] = Punct("{")
                  /\ text[5 * i - 2].t = "string"
                  /\ text[5 * i - 1].t = "string"
                  /\ text[5 * i].t = "string"
                  /\ text[5 * i + 1] = Punct("}")
    IN IF wellFormed
       THEN [ok |-> TRUE,
             value |-> [i \in 1..k |-> Turn(text[5 * i - 2].v, text[5 * i - 1].v, text[5 * i].v)]]
       ELSE [ok |-> FALSE, value |-> <<>>]

\* load_chat_history(): [raised, value]
load_chat_history(f) ==
    IF ~f.exists
    THEN [raised |-> FALSE, value |-> <<>>]
    ELSE IF json_load(f.text).ok
         THEN [raised |-> FALSE, value |-> json_load(f.text).value]
         ELSE [raised |-> TRUE, value |-> <<>>]

\* A save that keeps the turns already on disk that the saver does not hold.
save_chat_history_merging(h, f) ==
    LET old == IF f.exists /\ json_load(f.text).ok THEN json_load(f.text).value ELSE <<>>
        kept == SelectSeq(old, LAMBDA t : \A i \in 1..Len(h) : h[i] # t)
    IN [exists |-> TRUE, text |-> json_dump(kept \o h)]

\* save_chat_history(): the new file, given the session's history and the old file
save_chat_history(h, f) == [exists |-> TRUE, text |-> json_dump(h)]

\* ---------------------------------------------------------------- code runner
\* The sources typed into the editor, and what exec() of each does:
\* the text it prints, the figures it opens, and the exception it raises.
Programs ==
    { <<"x = 1">>, <<"print('hi')">>, <<"raise Exception('x')">>,
      <<"plt.plot([1, 2])">>, <<"plt.plot([1, 2]); raise Exception('x')">> }

exec(code) ==
    [ prints |-> IF code = <<"print('hi')">> THEN <<"hi", "\n">> ELSE <<>>,
      plots  |-> IF code \in {<<"plt.plot([1, 2])">>, <<"plt.plot([1, 2]); raise Exception('x')">>}
                 THEN 1 ELSE 0,
      raises |-> code \in {<<"raise Exception('x')">>, <<"plt.plot([1, 2]); raise Exception('x')">>},
      err    |-> <<"x">> ]

\* A runner that asks for the explanation on the failure path too.
run_code_explains_failure(code, stdout, figs, outcome) ==
    LET eff == exec(code)
        reply == get_ai_response(<<"Explain this Python code: ">> \o code, outcome)
    IN [ sys_stdout |-> IF eff.raises THEN "capture" ELSE stdout,
         fignums |-> figs + eff.plots,
         calls |-> IF eff.raises THEN <<"exec", "ask">>
                   ELSE <<"exec", "getvalue", "restore", "ask">>,
         output |-> IF eff.raises THEN <<>> ELSE eff.prints,
         figure |-> ~eff.raises /\ figs + eff.plots > 0,
         error |-> IF eff.raises THEN <<"Error: ">> \o eff.err ELSE <<>>,
         remote |-> outcome.kind,
         response |-> reply.value ]

\* The body of the Run Code handler: what it leaves behind and what it shows.
run_code(code, stdout, figs, outcome) ==
    LET eff == exec(code)
        old_stdout == stdout
        figs1 == figs + eff.plots
        reply == get_ai_response(<<"Explain this Python code: ">> \o code, outcome)
    IN IF eff.raises
       THEN \* exec raised: control jumps to the except clause
            [ sys_stdout |-> "capture", fignums |-> figs1,
              calls |-> <<"exec">>, output |-> <<>>, figure |-> FALSE,
              error |-> <<"Error: ">> \o eff.err, remote |-> "none", response |-> <<>> ]
       ELSE [ sys_stdout |-> old_stdout, fignums |-> figs1,
              calls |-> <<"exec", "getvalue", "restore", "ask">>,
              output |-> eff.prints, figure |-> figs1 > 0,
              error |-> IF reply.raised THEN <<"Error: ">> \o outcome.text ELSE <<>>,
              remote |-> outcome.kind,
              response |-> IF reply.raised THEN <<>> ELSE reply.value ]

\* ---------------------------------------------------------------- session controller
quick_questions ==
    << <<"What is overfitting in ML?">>, <<"Explain bias-variance tradeoff.">>,
       <<"Types of regression?">>, <<"Supervised vs. Unsupervised learning?">> >>

\* What users type into the chat box (st.chat_input returns only non-empty text).
ChatInputs == { <<"What is PCA?">> }

Roles == { <<"User">>, <<"Admin">> }

\* A script run by session s that calls no component and shows nothing.
Quiet(s, kind) ==
    [ session |-> s, kind |-> kind, calls |-> <<>>, rerun |-> FALSE, raised |-> FALSE,
      error |-> <<>>, code |-> <<>>, prompt |-> <<>>, remote |-> "none", response |-> <<>>,
      output |-> <<>>, figure |-> FALSE, plotted |-> FALSE ]

\* The exchange an earlier process left in chat_history.json.
CarolPair ==
    << Turn(<<"carol">>, <<"User">>, <<"Types of regression?">>),
       Turn(<<"AI Assistant">>, <<"AI">>, <<"\n", "- ", "Linear">>) >>

\* Files the process may find at start: none, an empty history, a history left by
\* an earlier process, and a file cut short in the middle of a write.
InitialFiles ==
    { [exists |-> FALSE, text |-> <<>>],
      [exists |-> TRUE, text |-> json_dump(<<>>)],
      [exists |-> TRUE, text |-> json_dump(CarolPair)],
      [exists |-> TRUE, text |-> <<Punct("["), Punct("{")>>] }

Init ==
    /\ file \in InitialFiles
    /\ sys_stdout = "original"
    /\ fignums = 0
    /\ started = [s \in Sessions |-> FALSE]
    /\ chat_history = [s \in Sessions |-> <<>>]
    /\ logged_in = [s \in Sessions |-> FALSE]
    /\ username = [s \in Sessions |-> <<>>]
    /\ role = [s \in Sessions |-> <<"User">>]
    /\ ev = Quiet(0, "none")

\* First script run of a session: session_state is filled in (lines 45-52) and the
\* login form is shown.  A JSONDecodeError from json.load is not caught and ends the
\* run at line 48 with nothing stored.
Start(s) ==
    /\ ~started[s]
    /\ LET loaded == load_chat_history(file)
       IN IF loaded.raised
          THEN /\ ev' = [Quiet(s, "start") EXCEPT !.calls = <<"load">>, !.raised = TRUE]
               /\ UNCHANGED <<started, chat_history, logged_in, role>>
          ELSE /\ started' = [started EXCEPT ![s] = TRUE]
               /\ chat_history' = [chat_history EXCEPT ![s] = loaded.value]
               /\ logged_in' = [logged_in EXCEPT ![s] = FALSE]
               /\ role' = [role EXCEPT ![s] = <<"User">>]
               /\ ev' = [Quiet(s, "start") EXCEPT !.calls = <<"load">>]
    /\ UNCHANGED <<file, sys_stdout, fignums, username>>

\* A login that also accepts the empty username.
LoginAcceptsEmpty(s, name, r) ==
    /\ started[s] /\ ~logged_in[s]
    /\ logged_in' = [logged_in EXCEPT ![s] = TRUE]
    /\ username' = [username EXCEPT ![s] = name]
    /\ role' = [role EXCEPT ![s] = r]
    /\ ev' = [Quiet(s, "login") EXCEPT !.rerun = TRUE]
    /\ UNCHANGED <<file, sys_stdout, fignums, started, chat_history>>

\* The Login button (lines 58-71).
Login(s, name, r) ==
    /\ started[s] /\ ~logged_in[s]
    /\ IF name = <<>>
       THEN /\ ev' = Quiet(s, "login")
            /\ UNCHANGED <<logged_in, username, role>>
       ELSE /\ logged_in' = [logged_in EXCEPT ![s] = TRUE]
            /\ username' = [username EXCEPT ![s] = name]
            /\ role' = [role EXCEPT ![s] = r]
            /\ ev' = [Quiet(s, "login") EXCEPT !.rerun = TRUE]
    /\ UNCHANGED <<file, sys_stdout, fignums, started, chat_history>>

\* Clear Chat History without the save.
ClearHistoryNoSave(s) ==
    /\ logged_in[s]
    /\ chat_history' = [chat_history EXCEPT ![s] = <<>>]
    /\ ev' = Quiet(s, "clear")
    /\ UNCHANGED <<file, sys_stdout, fignums, started, logged_in, username, role>>

\* The Clear Chat History button (lines 92-94).
ClearHistory(s) ==
    /\ logged_in[s]
    /\ chat_history' = [chat_history EXCEPT ![s] = <<>>]
    /\ file' = save_chat_history(<<>>, file)
    /\ ev' = [Quiet(s, "clear") EXCEPT !.calls = <<"save">>]
    /\ UNCHANGED <<sys_stdout, fignums, started, logged_in, username, role>>

\* The Download Chat History button (lines 95-97): formats the history for a
\* download widget; no component is called and no state is written.
DownloadHistory(s) ==
    /\ logged_in[s]
    /\ ev' = Quiet(s, "download")
    /\ UNCHANGED <<file, sys_stdout, fignums, started, chat_history, logged_in, username, role>>

\* An exchange that records no assistant turn when the reply is an error string.
ExchangeSkipsErrorReply(h, u, r, msg, response) ==
    IF StartsWith(response, <<WarningSign>>)
    THEN h \o <<Turn(u, r, msg)>>
    ELSE h \o <<Turn(u, r, msg), Turn(<<"AI Assistant">>, <<"AI">>, response)>>

\* The two appends of a chat exchange (lines 139-151, and 111-121 for quick questions).
Exchange(h, u, r, msg, response) ==
    h \o <<Turn(u, r, msg), Turn(<<"AI Assistant">>, <<"AI">>, response)>>

\* The body shared by the chat-input and quick-question handlers: append the user's
\* turn, ask, append the assistant's turn, save, and (if rerun) call st.rerun().
Converse(s, kind, msg, outcome, rerun) ==
    /\ logged_in[s]
    /\ Len(chat_history[s]) + 2 <= MaxTurns
    /\ LET reply == get_ai_response(msg, outcome)
           h1 == Exchange(chat_history[s], username[s], role[s], msg, reply.value)
       IN IF reply.raised
          THEN \* the exception leaves the script after the first append
               /\ chat_history' = [chat_history EXCEPT
                                     ![s] = chat_history[s] \o <<Turn(username[s], role[s], msg)>>]
               /\ ev' = [Quiet(s, kind) EXCEPT !.calls = <<"ask">>, !.raised = TRUE,
                                               !.prompt = msg, !.remote = outcome.kind]
               /\ UNCHANGED file
          ELSE /\ chat_history' = [chat_history EXCEPT ![s] = h1]
               /\ file' = save_chat_history(h1, file)
               /\ ev' = [Quiet(s, kind) EXCEPT !.calls = <<"ask", "save">>, !.rerun = rerun,
                                               !.prompt = msg, !.remote = outcome.kind,
                                               !.response = reply.value]
    /\ UNCHANGED <<sys_stdout, fignums, started, logged_in, username, role>>

\* A quick-question handler that forgets st.rerun().
QuickQuestionNoRerun(s, idx, outcome) == Converse(s, "quick", quick_questions[idx], outcome, FALSE)

\* A quick-question button (lines 109-123).
QuickQuestion(s, idx, outcome) == Converse(s, "quick", quick_questions[idx], outcome, TRUE)

\* The chat input (lines 137-154).
ChatInput(s, user_input, outcome) == Converse(s, "chat", user_input, outcome, TRUE)

\* The Run Code button (lines 161-180).  No st.rerun() follows.
RunCode(s, code, outcome) ==
    /\ logged_in[s]
    /\ fignums + exec(code).plots <= MaxFigs
    /\ LET res == run_code(code, sys_stdout, fignums, outcome)
       IN /\ sys_stdout' = res.sys_stdout
          /\ fignums' = res.fignums
          /\ ev' = [Quiet(s, "run") EXCEPT
                      !.code = code, !.calls = res.calls, !.error = res.error, !.remote = res.remote,
                      !.prompt = IF res.remote = "none" THEN <<>>
                                 ELSE <<"Explain this Python code: ">> \o code,
                      !.response = res.response, !.output = res.output,
                      !.figure = res.figure, !.plotted = exec(code).plots > 0]
    /\ UNCHANGED <<file, started, chat_history, logged_in, username, role>>

\* The Clear Code button (lines 181-183): empties st.session_state.code and calls
\* st.rerun(); the editor text is an input of RunCode here, not kept as state.
ClearCode(s) ==
    /\ logged_in[s]
    /\ ev' = [Quiet(s, "clearcode") EXCEPT !.rerun = TRUE]
    /\ UNCHANGED <<file, sys_stdout, fignums, started, chat_history, logged_in, username, role>>

\* Everything one session can do.
Next ==
    \E s \in SoloSessions :
        \/ Start(s)
        \/ \E name \in {<<>>, TypedName(s)}, r \in Roles : Login(s, name, r)
        \/ ClearHistory(s)
        \/ DownloadHistory(s)
        \/ \E idx \in 1..Len(quick_questions), o \in RemoteOutcomes : QuickQuestion(s, idx, o)
        \/ \E m \in ChatInputs, o \in RemoteOutcomes : ChatInput(s, m, o)
        \/ \E c \in Programs, o \in RemoteOutcomes : RunCode(s, c, o)
        \/ ClearCode(s)

\* One browser session using the process.
Spec == Init /\ [][Next]_vars

\* Two sessions chatting over the same chat_history.json.
SharedNext ==
    \E s \in Sessions :
        \/ Start(s)
        \/ \E name \in {<<>>, TypedName(s)} : Login(s, name, <<"User">>)
        \/ ClearHistory(s)
        \/ \E m \in ChatInputs, o \in RemoteOutcomes : ChatInput(s, m, o)

SpecShared == Init /\ [][SharedNext]_vars

\* ---------------------------------------------------------------- properties
Positions(calls, c) == { i \in 1..Len(calls) : calls[i] = c }

\* Calls into the History Store (load, save), the LLM Gateway (ask) and the Code Runner (exec).
ComponentCalls(calls) ==
    Cardinality({ i \in 1..Len(calls) : calls[i] \in {"load", "save", "ask", "exec"} })

OnDisk == json_load(file.text).value

\* C1: after every Run Code event, whether the source ran to completion or raised,
\* sys.stdout is the original stream again.
C1_StdoutRestoredAfterRun == ev.kind = "run" => sys_stdout = "original"

\* C2: once a session has started, reloading chat_history.json yields exactly the
\* session's in-memory history after every handler, and the empty history right
\* after a clear.
C2_ReloadEqualsMemory ==
    \A s \in SoloSessions :
        started[s] =>
            /\ load_chat_history(file) = [raised |-> FALSE, value |-> chat_history[s]]
            /\ (ev.kind \in {"chat", "quick", "clear"} => file.exists)
            /\ (ev.kind = "clear" => file.exists /\ OnDisk = <<>>)

C2_Witness ==
    /\ ev.kind \in {"chat", "quick"}
    /\ Len(chat_history[1]) >= 4
    /\ chat_history[1][1].username = <<"alice">>
    /\ file.exists /\ OnDisk = chat_history[1]

\* C3: load_chat_history never raises to the session start, whatever the state of
\* chat_history.json; a missing or unreadable file gives the empty history.
C3_LoadFailsSoft ==
    ev.kind = "start" =>
        /\ ~ev.raised
        /\ started[ev.session]
        /\ (~file.exists \/ ~json_load(file.text).ok => chat_history[ev.session] = <<>>)

\* C4 as stated: get_ai_response never raises, and when the remote call fails the
\* returned string starts with "API Error: ".
C4_ErrorStartsWithApiError ==
    ev.remote = "raise" => ~ev.raised /\ StartsWith(ev.response, <<"API Error: ">>)

\* C4, amended: get_ai_response never raises and always returns a string; when the
\* remote call fails the string is the warning sign, a space, "API Error: " and the
\* failure details.
C4_ErrorsBecomeContent ==
    ev.remote # "none" =>
        /\ ~ev.raised
        /\ ev.response # <<>>
        /\ (ev.remote = "raise" =>
               \E o \in RemoteOutcomes :
                   /\ o.kind = "raise"
                   /\ ev.response = <<WarningSign, " ", "API Error: ">> \o o.text)

C4_Witness ==
    /\ ev.kind = "chat"
    /\ ev.remote = "raise"
    /\ ev.response = <<WarningSign, " ", "API Error: ", "429 quota exceeded">>

\* C5: a Run Code event shows a figure only if the code run in that event made a plot.
C5_FigureOnlyIfPlotted == ev.kind = "run" /\ ev.figure => ev.plotted

\* C6: a Run Code event whose source runs without raising issues exactly one
\* get_ai_response call, with the explain prompt for that source, after exec and the
\* output capture; a Run Code event whose source raises issues none.
C6_ExplainOnlyAfterSuccess ==
    ev.kind = "run" =>
        IF exec(ev.code).raises
        THEN Positions(ev.calls, "ask") = {} /\ ev.remote = "none"
        ELSE /\ Cardinality(Positions(ev.calls, "ask")) = 1
             /\ ev.prompt = <<"Explain this Python code: ">> \o ev.code
             /\ \A a \in Positions(ev.calls, "ask") :
                   /\ \E e \in Positions(ev.calls, "exec") : e < a
                   /\ \E g \in Positions(ev.calls, "getvalue") : g < a

C6_Witness ==
    /\ ev.kind = "run"
    /\ ev.code = <<"print('hi')">>
    /\ ev.output = <<"hi", "\n">>
    /\ ev.calls = <<"exec", "getvalue", "restore", "ask">>
    /\ ev.remote = "text"

\* C7: a script run of a session that is not logged in changes neither the chat
\* history nor the file and calls neither the gateway nor exec; logged_in turns true
\* only in a Login run with a non-empty username, and never turns false again.
C7_LoginGate ==
    [][\A s \in Sessions :
          /\ (~logged_in[s] /\ ev'.session = s) =>
                /\ ev'.kind \in {"start", "login"}
                /\ file' = file
                /\ (started[s] => chat_history'[s] = chat_history[s])
                /\ \A i \in 1..Len(ev'.calls) : ev'.calls[i] \notin {"save", "ask", "exec"}
          /\ (~logged_in[s] /\ logged_in'[s]) =>
                ev'.kind = "login" /\ ev'.session = s /\ username'[s] # <<>>
          /\ (logged_in[s] => logged_in'[s])]_vars

C7_Witness ==
    /\ ev.kind = "login"
    /\ ~ev.rerun
    /\ started[ev.session]
    /\ ~logged_in[ev.session]

\* C8: with two sessions on one file, a session never re-reads the file after its
\* start, and every write leaves on disk exactly the writer's in-memory history, so
\* what another session saved in between is dropped without an error.
C8_LoadOnceOverwriteAlways ==
    [][\A s \in Sessions :
          /\ (started[s] /\ ev'.session # s) => chat_history'[s] = chat_history[s]
          /\ (started[s] /\ ev'.session = s) =>
                \/ chat_history'[s] = chat_history[s]
                \/ chat_history'[s] = <<>>
                \/ /\ Len(chat_history'[s]) = Len(chat_history[s]) + 2
                   /\ SubSeq(chat_history'[s], 1, Len(chat_history[s])) = chat_history[s]
          /\ (ev'.session = s /\ file' # file) =>
                /\ ~ev'.raised
                /\ file'.exists
                /\ json_load(file'.text).value = chat_history'[s]]_vars

\* A lost update: t has never cleared (it still holds the turns it loaded), t's chat
\* run has just saved, and a turn s holds (and so has saved) is not on disk.
C8_LostUpdate ==
    \E s, t \in Sessions :
        /\ s # t
        /\ ev.session = t /\ ev.kind = "chat" /\ ~ev.raised
        /\ Len(chat_history[t]) = 4
        /\ SubSeq(chat_history[t], 1, 2) = CarolPair
        /\ OnDisk = chat_history[t]
        /\ \E i \in 1..Len(chat_history[s]) :
              /\ chat_history[s][i].username = TypedName(s)
              /\ \A j \in 1..Len(OnDisk) : OnDisk[j] # chat_history[s][i]

EventHandlers == {"chat", "quick", "run", "clearcode", "clear", "download"}

\* C9 as stated: each of the six event handlers makes exactly one component call and
\* then requests a re-render.
C9_OneCallThenRerun ==
    ev.kind \in EventHandlers => ComponentCalls(ev.calls) = 1 /\ ev.rerun

\* C9, amended: chat and quick-question make two calls (ask, then save) and call
\* st.rerun(); clear history makes one (save) and does not rerun; run code makes one
\* (exec) when the source raises and two (exec, then ask) when it does not, and does
\* not rerun; clear code makes none and reruns; download makes none and does not rerun.
C9_CallsPerHandler ==
    /\ ev.kind \in {"chat", "quick"} =>
          /\ ev.calls = <<"ask", "save">> /\ ev.rerun
    /\ ev.kind = "clear" => ev.calls = <<"save">> /\ ~ev.rerun
    /\ ev.kind = "run" =>
          /\ ~ev.rerun
          /\ ComponentCalls(ev.calls) = (IF exec(ev.code).raises THEN 1 ELSE 2)
    /\ ev.kind = "clearcode" => ev.calls = <<>> /\ ev.rerun
    /\ ev.kind = "download" => ev.calls = <<>> /\ ~ev.rerun

C9_Witness ==
    /\ ev.kind = "quick"
    /\ ev.calls = <<"ask", "save">>
    /\ ev.rerun
    /\ Len(chat_history[ev.session]) = 2

IsUserTurn(t) == t.role \in Roles
IsAssistantTurn(t) == t.username = <<"AI Assistant">> /\ t.role = <<"AI">>

Alternates(h) ==
    /\ Len(h) % 2 = 0
    /\ \A i \in 1..Len(h) : IF i % 2 = 1 THEN IsUserTurn(h[i]) ELSE IsAssistantTurn(h[i])

\* C10: every chat or quick-question run appends the user's turn and then one
\* assistant turn carrying the gateway's string (the error string when the call
\* failed), so the in-memory and the saved history have even length and alternate
\* user turn, assistant turn.
C10_TurnsComeInPairs ==
    \A s \in SoloSessions :
        started[s] =>
            /\ Alternates(chat_history[s])
            /\ (file.exists => Alternates(OnDisk))
            /\ (ev.kind \in {"chat", "quick"} =>
                   LET n == Len(chat_history[s])
                   IN /\ n >= 2
                      /\ chat_history[s][n - 1] = Turn(username[s], role[s], ev.prompt)
                      /\ chat_history[s][n] = Turn(<<"AI Assistant">>, <<"AI">>, ev.response)
                      /\ ev.response # <<>>)

C10_Witness ==
    /\ ev.kind = "quick"
    /\ ev.remote = "raise"
    /\ Len(chat_history[1]) = 4
    /\ chat_history[1][3].message = <<"Explain bias-variance tradeoff.">>
    /\ StartsWith(chat_history[1][4].message, <<WarningSign, " ", "API Error: ">>)
    /\ OnDisk = chat_history[1]

====
